---- MODULE Spec2Model ----
(***************************************************************************)
(* Dynamic ticket pricing engine (src/pricing.py), the standalone reward   *)
(* scorer (src/reward_func.py) and the web endpoints (src/app.py).         *)
(*                                                                         *)
(* Units.  A price is an integer number of 1/Half cents: the engine rounds *)
(* a raw price to whole cents, and statistics.median of an even-length     *)
(* history halves a sum, so Half = 2^MaxDays keeps every price of a run of *)
(* at most MaxDays days integral.  Multipliers are in hundredths, rewards  *)
(* in hundredths, dates in whole days since construction.                  *)
(***************************************************************************)
EXTENDS Integers, Sequences, FiniteSets, TLC

VARIABLES
    concerts,           \* keys of base_prices in declaration (iteration) order
    price_history,      \* self.price_history
    sold_tickets,       \* self.sold_tickets
    current_date,       \* self.current_date, days since construction
    user_preferences,   \* self.user_preferences
    results,            \* the records of results.json, oldest first
    completed,          \* history: number of simulate_purchase calls that returned
    inflight,           \* the simulate_purchase calls running in threads: position and locals
    last                \* history: the last call, its inputs and what it returned

engine == <<price_history, sold_tickets, current_date, user_preferences>>
vars == <<concerts, price_history, sold_tickets, current_date, user_preferences,
          results, completed, inflight, last>>

\* ------------------------------------------------------------------ bounds
MaxDays == 2

\* ------------------------------------------------------------------ numbers
Half == 2 ^ MaxDays

Min2(a, b) == IF a <= b THEN a ELSE b
Max2(a, b) == IF a >= b THEN a ELSE b
Range(s) == {s[i] : i \in DOMAIN s}
SeqMin(s) == CHOOSE x \in Range(s) : \A y \in Range(s) : x <= y
SeqMax(s) == CHOOSE x \in Range(s) : \A y \in Range(s) : x >= y

\* sorted(data)[k-1]
KthSmallest(s, k) ==
    CHOOSE x \in Range(s) :
        /\ Cardinality({i \in DOMAIN s : s[i] < x}) < k
        /\ Cardinality({i \in DOMAIN s : s[i] <= x}) >= k

\* statistics.median: the middle value, or the mean of the two middle values
Median(s) ==
    LET n == Len(s) IN
    IF n % 2 = 1 THEN KthSmallest(s, n \div 2 + 1)
    ELSE (KthSmallest(s, n \div 2) + KthSmallest(s, n \div 2 + 1)) \div 2

\* round(base * t * i * w * p, 2) in cents, for multipliers in hundredths.  Every
\* multiplier is a multiple of 0.05, so the product is
\* base * (t/5)(i/5)(w/5)(p/5) / 1600 cents; it is rounded half to even and
\* computed in two parts to stay within 32-bit integers.
RoundToCents(base, t, i, w, p) ==
    LET q == base * (t \div 5) * (i \div 5)
        r == (w \div 5) * (p \div 5)
        den == 1600
        whole == (q \div den) * r + ((q % den) * r) \div den
        rem == ((q % den) * r) % den
    IN  IF 2 * rem > den \/ (2 * rem = den /\ whole % 2 = 1) THEN whole + 1 ELSE whole

\* ------------------------------------------------------------------ configuration
\* ConcertPricing(base_prices, total_tickets, concert_dates): the constructor
\* arguments.  The engine is parametric in them.  The instance below keeps the
\* concert names of app.py and uses small inventories and near dates, so that
\* capacity clamping and every inventory and time band occur within MaxDays
\* days, and base prices whose products with the multipliers never fall on
\* half a cent (where the float round and the exact round could differ).
AllConcerts == {"Coldplay", "Arijit Singh", "Taylor Swift"}
base_prices ==
    [c \in AllConcerts |->
        IF c = "Coldplay" THEN 1600 ELSE IF c = "Arijit Singh" THEN 16000 ELSE 8000]
total_tickets ==
    [c \in AllConcerts |->
        IF c = "Coldplay" THEN 1 ELSE IF c = "Arijit Singh" THEN 3 ELSE 2]
\* (concert_dates[c] - datetime.now()).days at construction
concert_dates ==
    [c \in AllConcerts |->
        IF c = "Coldplay" THEN 8 ELSE IF c = "Arijit Singh" THEN 32 ELSE 40]

NeutralPref == 50
HighPref == 95
LowPref == 40

\* ------------------------------------------------------------------ engine
Self == [price_history |-> price_history, sold_tickets |-> sold_tickets,
         current_date |-> current_date, user_preferences |-> user_preferences]

\* the state after ConcertPricing.__init__ for the concerts in order
NewEngine(order) ==
    [price_history |-> [c \in Range(order) |-> <<>>],
     sold_tickets |-> [c \in Range(order) |-> 0],
     current_date |-> 0,
     user_preferences |-> [c \in Range(order) |-> NeutralPref]]

time_multiplier(self, c) ==
    LET days_before == concert_dates[c] - self.current_date IN
    IF days_before > 30 THEN 85
    ELSE IF days_before >= 7 THEN 100
    ELSE 125

\* the inventory multiplier with a remaining ratio of exactly one half taken
\* as high stock
inventory_multiplier_inclusive(self, c) ==
    LET total == total_tickets[c]
        sold == self.sold_tickets[c]
    IN  IF 10 * (total - sold) >= 5 * total THEN 100
        ELSE IF 10 * (total - sold) > 2 * total THEN 115
        ELSE 135

inventory_multiplier(self, c) ==
    LET total == total_tickets[c]
        sold == self.sold_tickets[c]
    IN  \* remaining_ratio = (total - sold) / total against 0.5 and 0.2
        IF 10 * (total - sold) > 5 * total THEN 100
        ELSE IF 10 * (total - sold) > 2 * total THEN 115
        ELSE 135

traffic_multiplier(web_traffic) ==
    IF web_traffic < 30 THEN 95
    ELSE IF web_traffic < 70 THEN 100
    ELSE 120

preference_multiplier(self, c) ==
    LET preference == self.user_preferences[c] IN
    IF preference < 50 THEN 90
    ELSE IF preference < 70 THEN 100
    ELSE 115

raw_price(self, c, web_traffic) ==
    Half * RoundToCents(base_prices[c], time_multiplier(self, c),
                        inventory_multiplier(self, c),
                        traffic_multiplier(web_traffic),
                        preference_multiplier(self, c))

\* get_price without the median floor
apply_floor_never(raw, price_history_c) == raw

\* lines 68-73 of get_price: the median floor
apply_floor(raw, price_history_c) ==
    IF price_history_c # <<>> THEN Max2(raw, Median(price_history_c)) ELSE raw

\* get_price returning the rounded product whatever the history holds
get_price_unfloored(self, c, web_traffic) ==
    raw_price(self, c, web_traffic)

get_price(self, c, web_traffic) ==
    apply_floor(raw_price(self, c, web_traffic), self.price_history[c])

\* sell_ticket without the clamp to the remaining capacity
sell_ticket_unclamped(self, c, num) ==
    [self EXCEPT !.sold_tickets[c] = @ + num]

sell_ticket(self, c, num) ==
    [self EXCEPT !.sold_tickets[c] =
        @ + Min2(num, total_tickets[c] - self.sold_tickets[c])]

\* ------------------------------------------------------------------ text
\* A text is a sequence of one-character strings.
UpperCase == <<"A","B","C","D","E","F","G","H","I","J","K","L","M",
               "N","O","P","Q","R","S","T","U","V","W","X","Y","Z">>
LowerCase == <<"a","b","c","d","e","f","g","h","i","j","k","l","m",
               "n","o","p","q","r","s","t","u","v","w","x","y","z">>

\* str.lower()
Lower(text) ==
    [k \in DOMAIN text |->
        IF \E j \in DOMAIN UpperCase : UpperCase[j] = text[k]
        THEN LowerCase[CHOOSE j \in DOMAIN UpperCase : UpperCase[j] = text[k]]
        ELSE text[k]]

\* needle in hay
Contains(needle, hay) ==
    \E k \in 0..(Len(hay) - Len(needle)) : SubSeq(hay, k + 1, k + Len(needle)) = needle

\* the concert names, as texts
Name(c) ==
    IF c = "Coldplay" THEN <<"C","o","l","d","p","l","a","y">>
    ELSE IF c = "Arijit Singh" THEN <<"A","r","i","j","i","t"," ","S","i","n","g","h">>
    ELSE <<"T","a","y","l","o","r"," ","S","w","i","f","t">>

\* ------------------------------------------------------------------ preference resolver
None == "None"

\* concert.lower() in prompt_lower
Mentions(prompt, c) == Contains(Lower(Name(c)), Lower(prompt))

\* the first loop without lowering either text: a case-sensitive match
selected_concert_case_sensitive(order, prompt) ==
    LET hits == {k \in DOMAIN order : Contains(Name(order[k]), prompt)} IN
    IF hits = {} THEN None
    ELSE order[CHOOSE k \in hits : \A j \in hits : k <= j]

\* the first loop of _parse_user_prompt: the first concert, in declaration
\* order, that the prompt mentions
selected_concert(order, prompt) ==
    LET hits == {k \in DOMAIN order : Mentions(prompt, order[k])} IN
    IF hits = {} THEN None
    ELSE order[CHOOSE k \in hits : \A j \in hits : k <= j]

\* the second loop of _parse_user_prompt
set_preferences(order, selected) ==
    [c \in Range(order) |-> IF c = selected THEN HighPref ELSE LowPref]

parse_user_prompt(self, order, prompt) ==
    [self EXCEPT !.user_preferences =
        set_preferences(order, selected_concert(order, prompt))]

\* ------------------------------------------------------------------ rewards
\* a clip that sends a value below the range to the top of the range
clip_below_to_top(x, lo, hi) == IF x < lo THEN hi ELSE Min2(x, hi)

\* np.clip
Clip(x, lo, hi) == Max2(lo, Min2(x, hi))

\* np.linspace(lo, hi, n + 1): edge j is lo + j (hi - lo) / n, kept as the
\* fraction <<numerator, denominator>> since it need not be a whole price unit
Linspace(lo, hi, n) == [j \in 1..(n + 1) |-> <<n * lo + (j - 1) * (hi - lo), n>>]

\* np.digitize(x, bins, right=False): the number of edges at or below x
digitize_left(x, bins) == Cardinality({j \in DOMAIN bins : bins[j][1] <= x * bins[j][2]})

\* np.digitize(x, bins, right=True) for increasing bins: the index i with
\* bins[i-1] < x <= bins[i], i.e. the number of edges strictly below x
Digitize(x, bins) == Cardinality({j \in DOMAIN bins : bins[j][1] < x * bins[j][2]})

\* ConcertPricing.calculate_reward: the bin of the clipped price
engine_bin_index(price_history_c, purchased_price, num_bins) ==
    Digitize(Clip(purchased_price, SeqMin(price_history_c), SeqMax(price_history_c)),
             Linspace(SeqMin(price_history_c), SeqMax(price_history_c), num_bins))

\* ConcertPricing.calculate_reward: the reward before the preference adjustment
engine_base_reward(price_history_c, purchased_price, num_bins) ==
    Max2(num_bins - engine_bin_index(price_history_c, purchased_price, num_bins), 0)

\* ConcertPricing.calculate_reward: the preference adjustment and the final floor,
\* in hundredths
engine_adjust(reward, preference) ==
    Max2(IF preference > 70 THEN reward + 50
         ELSE IF preference < 30 THEN reward - 150
         ELSE reward, 0)

\* ConcertPricing.calculate_reward, in hundredths
calculate_reward(self, c, purchased_price, num_bins) ==
    IF self.price_history[c] = <<>> THEN 0
    ELSE IF SeqMin(self.price_history[c]) = SeqMax(self.price_history[c])
    THEN 100 * (num_bins - 1)
    ELSE engine_adjust(
            100 * engine_base_reward(self.price_history[c], purchased_price, num_bins),
            self.user_preferences[c])

\* reward_func.calculate_reward: the clamped bin of the clipped price
scorer_bin_index(price_history_c, purchased_price, num_bins) ==
    Max2(1, Min2(num_bins,
        Digitize(Clip(purchased_price, SeqMin(price_history_c), SeqMax(price_history_c)),
                 Linspace(SeqMin(price_history_c), SeqMax(price_history_c), num_bins))))

\* a base reward that rises with the bin
scorer_base_reward_rising(bin_index, num_bins) == bin_index - 1

\* reward_func.calculate_reward: the reward before the adjustments
scorer_base_reward(bin_index, num_bins) == Max2(num_bins - bin_index, 0)

\* reward_func.calculate_reward: the preference adjustment, in hundredths
scorer_preference(reward, preference) ==
    IF preference > 50 THEN reward + 25
    ELSE IF preference < 30 THEN reward - 150
    ELSE reward

\* reward_func.calculate_reward: the threshold adjustment, in hundredths
scorer_threshold(reward, preference, threshold) ==
    IF reward <= threshold
    THEN IF preference > 50 THEN reward + 75 ELSE reward - 100
    ELSE reward

\* the degenerate result with the preference penalty applied to it
scorer_degenerate_penalised(min_p, num_bins) ==
    [reward |-> 100 * (num_bins - 1) - 150, bin_index |-> 1,
     bins |-> [j \in 1..(num_bins + 1) |-> <<min_p, 1>>]]

\* reward_func.calculate_reward on a history whose prices are all equal
scorer_degenerate(min_p, num_bins) ==
    [reward |-> 100 * (num_bins - 1), bin_index |-> 1,
     bins |-> [j \in 1..(num_bins + 1) |-> <<min_p, 1>>]]

\* reward_func.calculate_reward on a history with min != max
scorer_binned(price_history_c, purchased_price, preference, num_bins, threshold) ==
    [reward |->
        scorer_threshold(
            scorer_preference(
                100 * scorer_base_reward(
                    scorer_bin_index(price_history_c, purchased_price, num_bins), num_bins),
                preference),
            preference, threshold),
     bin_index |-> scorer_bin_index(price_history_c, purchased_price, num_bins),
     bins |-> Linspace(SeqMin(price_history_c), SeqMax(price_history_c), num_bins)]

\* reward_func.calculate_reward; the result is (reward, bin_index, bins), the
\* reward in hundredths, bin_index None as NoBin
NoBin == -1
reward_func_calculate_reward(price_history_c, purchased_price, preference, num_bins, threshold) ==
    IF price_history_c = <<>> THEN [reward |-> 0, bin_index |-> NoBin, bins |-> <<>>]
    ELSE IF SeqMin(price_history_c) = SeqMax(price_history_c)
    THEN scorer_degenerate(SeqMin(price_history_c), num_bins)
    ELSE scorer_binned(price_history_c, purchased_price, preference, num_bins, threshold)

\* ------------------------------------------------------------------ day simulator
\* the body of the loop up to the sale: the price is appended, the tickets sold
append_and_sell(self, concert, price, tickets_sold_today) ==
    sell_ticket([self EXCEPT !.price_history[concert] = Append(@, price)],
                concert, tickets_sold_today)

\* day_state[concert], from the state after the sale
snapshot_entry(self, concert, traffic, price, tickets_sold_today) ==
    [Price |-> price,
     Traffic |-> traffic,
     Preference |-> self.user_preferences[concert],
     SoldToday |-> tickets_sold_today,
     TotalSold |-> self.sold_tickets[concert],
     Remaining |-> total_tickets[concert] - self.sold_tickets[concert],
     FloorPrice |-> Median(self.price_history[concert]),
     Reward |-> calculate_reward(self, concert, price, 5)]

\* the date advanced by two days
advance_day_twice(self) == [self EXCEPT !.current_date = @ + 2]

\* self.current_date += timedelta(days=1)
advance_day(self) == [self EXCEPT !.current_date = @ + 1]

RECURSIVE simulate_loop(_, _, _, _, _, _)
\* the rest of an iteration once the state after the sale is known
simulate_record(self, order, web_traffic_dict, sales, day_state, k, price) ==
    simulate_loop(self, order, web_traffic_dict, sales,
                  (order[k] :> snapshot_entry(self, order[k], web_traffic_dict[order[k]],
                                              price, sales[order[k]])) @@ day_state,
                  k + 1)

\* the iteration with the sale made before the price is computed
simulate_priced_sale_first(self, order, web_traffic_dict, sales, day_state, k, price) ==
    LET sold == sell_ticket(self, order[k], sales[order[k]])
        late == get_price(sold, order[k], web_traffic_dict[order[k]])
    IN  simulate_record([sold EXCEPT !.price_history[order[k]] = Append(@, late)],
                        order, web_traffic_dict, sales, day_state, k, late)

\* the rest of an iteration once the price is known
simulate_priced(self, order, web_traffic_dict, sales, day_state, k, price) ==
    simulate_record(append_and_sell(self, order[k], price, sales[order[k]]),
                    order, web_traffic_dict, sales, day_state, k, price)

\* the for loop of simulate_purchase from position k of the declaration order;
\* web_traffic_dict[concert] raises KeyError when the concert has no entry, and
\* the call then ends with the state as the loop left it
simulate_loop(self, order, web_traffic_dict, sales, day_state, k) ==
    IF k > Len(order)
    THEN [self |-> advance_day(self), day_state |-> day_state, raised |-> FALSE]
    ELSE IF order[k] \notin DOMAIN web_traffic_dict
    THEN [self |-> self, day_state |-> day_state, raised |-> TRUE]
    ELSE simulate_priced(self, order, web_traffic_dict, sales, day_state, k,
                         get_price(self, order[k], web_traffic_dict[order[k]]))

\* simulate_purchase(user_prompt, web_traffic_dict); sales[c] is the value
\* random.randint returns for concert c
simulate_purchase(self, order, user_prompt, web_traffic_dict, sales) ==
    simulate_loop(parse_user_prompt(self, order, user_prompt), order,
                  web_traffic_dict, sales, <<>>, 1)

\* ------------------------------------------------------------------ inputs
\* the concerts the engine of the state machine tracks, in declaration order
EngineOrder == <<"Coldplay", "Taylor Swift">>

\* traffic values offered to simulate_purchase
TrafficValues == {0, 20}
\* the largest value random.randint(0, max(1, traffic // 10)) can return
MaxDraw == Max2(1, SeqMax(<<0, 20>>) \div 10)

\* web_traffic_dict: a traffic value for every tracked concert, or for some only
TrafficDicts == UNION {[D -> TrafficValues] : D \in SUBSET Range(EngineOrder)}

\* the concerts the loop reaches: those before the first one without traffic
Reached(order, web_traffic_dict) ==
    {order[k] : k \in {k \in DOMAIN order :
                        \A j \in 1..k : order[j] \in DOMAIN web_traffic_dict}}

\* random.randint(0, max(1, traffic // 10)), for every concert the loop reaches
SalesDraws(order, web_traffic_dict) ==
    {f \in [Reached(order, web_traffic_dict) -> 0..MaxDraw] :
        \A c \in DOMAIN f : f[c] <= Max2(1, web_traffic_dict[c] \div 10)}

\* user prompts: one naming no concert, one naming each engine concert in a
\* case other than the declared one
Prompts == {
    <<"c","h","e","a","p","e","s","t">>,
    <<"C","O","L","D","P","L","A","Y">>,
    <<"t","a","y","l","o","r"," ","s","w","i","f","t">>
}

\* num of a direct sell_ticket(c, num) call
SellNums == 0..2

\* ------------------------------------------------------------------ the engine's state machine
Commit(self) ==
    /\ price_history' = self.price_history
    /\ sold_tickets' = self.sold_tickets
    /\ current_date' = self.current_date
    /\ user_preferences' = self.user_preferences

Init ==
    /\ concerts = EngineOrder
    /\ price_history = NewEngine(EngineOrder).price_history
    /\ sold_tickets = NewEngine(EngineOrder).sold_tickets
    /\ current_date = NewEngine(EngineOrder).current_date
    /\ user_preferences = NewEngine(EngineOrder).user_preferences
    /\ results = <<>>
    /\ completed = 0
    /\ inflight = <<>>
    /\ last = [op |-> "init", raised |-> FALSE]

\* a call of simulate_purchase, returning or raising KeyError
SimulatePurchase ==
    /\ \A c \in Range(concerts) : Len(price_history[c]) < MaxDays
    /\ \E user_prompt \in Prompts :
       \E s0 \in {parse_user_prompt(Self, concerts, user_prompt)} :
       \E web_traffic_dict \in TrafficDicts :
       \E sales \in SalesDraws(concerts, web_traffic_dict) :
       \E r \in {simulate_loop(s0, concerts, web_traffic_dict, sales, <<>>, 1)} :
          /\ Commit(r.self)
          /\ completed' = IF r.raised THEN completed ELSE completed + 1
          /\ last' = [op |-> "simulate_purchase", raised |-> r.raised,
                      reward |-> IF r.raised THEN <<>>
                                 ELSE [c \in DOMAIN r.day_state |-> r.day_state[c].Reward]]
    /\ UNCHANGED <<concerts, inflight, results>>

\* a direct call of sell_ticket
SellTicket ==
    /\ \E c \in Range(concerts), num \in SellNums :
       \E r \in {sell_ticket(Self, c, num)} :
          /\ Commit(r)
          /\ last' = [op |-> "sell_ticket", raised |-> FALSE, concert |-> c,
                      oversell |-> num > total_tickets[c] - sold_tickets[c]]
    /\ UNCHANGED <<concerts, inflight, results, completed>>

Next == SimulatePurchase \/ SellTicket

Spec == Init /\ [][Next]_vars

\* ------------------------------------------------------------------ the web application
\* app.py holds one engine (pricing) and appends its decision records to the
\* results log.
\* the value of random.randint(20, 100) offered to buy, for every concert
BuyTrafficValues == {20}
\* the concert field of the form: a tracked concert or another name
FormConcerts == Range(EngineOrder) \cup {"Unknown"}

\* the entry buy appends to the results log
buy_entry(self, user_prompt, concert, day_state, web_traffic) ==
    LET scored == reward_func_calculate_reward(self.price_history[concert],
                      day_state[concert].Price, 50, 5, 200)
    IN  [date |-> self.current_date,
         user_prompt |-> user_prompt,
         concert |-> concert,
         price |-> day_state[concert].Price,
         reward |-> scored.reward,
         bins |-> scored.bins,
         bin_index |-> scored.bin_index,
         web_traffic |-> web_traffic]

\* POST /buy
Buy ==
    /\ \A c \in Range(concerts) : Len(price_history[c]) < MaxDays
    /\ \E concert \in FormConcerts, user_prompt \in Prompts :
       \E web_traffic \in [Range(concerts) -> BuyTrafficValues] :
       \E sales \in SalesDraws(concerts, web_traffic) :
       \E r \in {simulate_purchase(Self, concerts, user_prompt, web_traffic, sales)} :
          /\ Commit(r.self)
          /\ completed' = completed + 1
          /\ IF concert \notin DOMAIN r.day_state
             THEN /\ results' = results
                  /\ last' = [op |-> "buy", raised |-> FALSE, status |-> 400,
                              concert |-> concert,
                              reward |-> [c \in DOMAIN r.day_state |-> r.day_state[c].Reward]]
             ELSE /\ results' = Append(results,
                         buy_entry(r.self, user_prompt, concert, r.day_state, web_traffic))
                  /\ last' = [op |-> "buy", raised |-> FALSE, status |-> 200,
                              concert |-> concert,
                              reward |-> [c \in DOMAIN r.day_state |-> r.day_state[c].Reward]]
    /\ UNCHANGED <<concerts, inflight>>

NextApp == Buy

SpecApp == Init /\ [][NextApp]_vars

\* ------------------------------------------------------------------ the scorers as functions
\* The two reward functions applied to drawn arguments: the state holds the
\* arguments, then the call and its result.
MaxHist == 4
RewardPrices == {100, 180, 500}
\* the history of the binning scenario
ExampleHistory == <<100, 200, 300, 400, 500>>
Histories == UNION {[1..n -> RewardPrices] : n \in 0..MaxHist} \cup {ExampleHistory}
PurchasePrices == {50, 100, 180, 250, 260, 500, 600}
Preferences == {0, 29, 30, 50, 51, 70, 71, 100}
NumBins == {1, 5, 10}
Thresholds == {0, 200}

\* the histories the engine can hold: every price is at least the median of
\* the prices before it
FloorRespecting(h) == \A k \in 2..Len(h) : h[k] >= Median(SubSeq(h, 1, k - 1))

\* an engine whose first concert has the given history and preference
EngineWith(h, preference) ==
    [NewEngine(EngineOrder) EXCEPT !.price_history[EngineOrder[1]] = h,
                                   !.user_preferences[EngineOrder[1]] = preference]

InitReward ==
    /\ concerts = EngineOrder
    /\ price_history = NewEngine(EngineOrder).price_history
    /\ sold_tickets = NewEngine(EngineOrder).sold_tickets
    /\ current_date = NewEngine(EngineOrder).current_date
    /\ user_preferences = NewEngine(EngineOrder).user_preferences
    /\ results = <<>>
    /\ completed = 0
    /\ inflight = <<>>
    /\ last \in [op : {"args"}, raised : {FALSE}, price_history : Histories,
                 purchased_price : PurchasePrices, preference : Preferences,
                 num_bins : NumBins, threshold : Thresholds]

\* reward_func.calculate_reward(price_history, purchased_price, preference, num_bins, threshold)
ScoreStandalone ==
    /\ last.op = "args"
    /\ last' = [op |-> "reward_func.calculate_reward", raised |-> FALSE, args |-> last,
                result |-> reward_func_calculate_reward(last.price_history,
                              last.purchased_price, last.preference, last.num_bins,
                              last.threshold)]
    /\ UNCHANGED <<concerts, inflight, engine, results, completed>>

\* ConcertPricing.calculate_reward(concert, purchased_price, num_bins) on an
\* engine that holds the history and the preference
ScoreEngine ==
    /\ last.op = "args"
    /\ FloorRespecting(last.price_history)
    /\ last' = [op |-> "ConcertPricing.calculate_reward", raised |-> FALSE, args |-> last,
                result |-> calculate_reward(
                              EngineWith(last.price_history, last.preference),
                              EngineOrder[1], last.purchased_price, last.num_bins)]
    /\ UNCHANGED <<concerts, inflight, engine, results, completed>>

NextReward == ScoreStandalone \/ ScoreEngine

SpecReward == InitReward /\ [][NextReward]_vars

\* ------------------------------------------------------------------ the scorers on a non-positive num_bins
\* Neither function validates num_bins.  np.linspace(min, max, num_bins + 1)
\* raises ValueError for a negative number of samples, returns the one edge
\* min for one sample and no edge for none; on no edge the outcome of
\* np.digitize is left open between an error and bin 0.
NonPositiveBins == {-2, -1, 0}

\* the outcomes of np.linspace followed by np.digitize(price, bins, right=True):
\* raised, or the index returned
digitize_outcomes(price_history_c, purchased_price, num_bins) ==
    IF num_bins + 1 < 0 THEN {[raised |-> TRUE, index |-> 0]}
    ELSE IF num_bins + 1 = 0
    THEN {[raised |-> TRUE, index |-> 0], [raised |-> FALSE, index |-> 0]}
    ELSE {[raised |-> FALSE,
           index |-> Digitize(Clip(purchased_price, SeqMin(price_history_c),
                                   SeqMax(price_history_c)),
                              <<<<SeqMin(price_history_c), 1>>>>)]}

\* reward_func.calculate_reward with num_bins <= 0: what it returns or that
\* it raised
scorer_nonpositive(price_history_c, purchased_price, preference, num_bins, threshold) ==
    IF price_history_c = <<>>
    THEN {[raised |-> FALSE, reward |-> 0]}
    ELSE IF SeqMin(price_history_c) = SeqMax(price_history_c)
    THEN {[raised |-> FALSE, reward |-> 100 * (num_bins - 1)]}
    ELSE {IF d.raised THEN [raised |-> TRUE, reward |-> 0]
          ELSE [raised |-> FALSE,
                reward |-> scorer_threshold(
                    scorer_preference(
                        100 * scorer_base_reward(Max2(1, Min2(num_bins, d.index)), num_bins),
                        preference),
                    preference, threshold)] :
          d \in digitize_outcomes(price_history_c, purchased_price, num_bins)}

\* ConcertPricing.calculate_reward with num_bins <= 0
engine_nonpositive(price_history_c, purchased_price, preference, num_bins) ==
    IF price_history_c = <<>>
    THEN {[raised |-> FALSE, reward |-> 0]}
    ELSE IF SeqMin(price_history_c) = SeqMax(price_history_c)
    THEN {[raised |-> FALSE, reward |-> 100 * (num_bins - 1)]}
    ELSE {IF d.raised THEN [raised |-> TRUE, reward |-> 0]
          ELSE [raised |-> FALSE,
                reward |-> engine_adjust(100 * Max2(num_bins - d.index, 0), preference)] :
          d \in digitize_outcomes(price_history_c, purchased_price, num_bins)}

InitNonPositive ==
    /\ concerts = EngineOrder
    /\ price_history = NewEngine(EngineOrder).price_history
    /\ sold_tickets = NewEngine(EngineOrder).sold_tickets
    /\ current_date = NewEngine(EngineOrder).current_date
    /\ user_preferences = NewEngine(EngineOrder).user_preferences
    /\ results = <<>>
    /\ completed = 0
    /\ inflight = <<>>
    /\ last \in [op : {"args"}, raised : {FALSE}, price_history : Histories,
                 purchased_price : PurchasePrices, preference : Preferences,
                 num_bins : NonPositiveBins, threshold : Thresholds]

\* reward_func.calculate_reward(..., num_bins <= 0)
ScoreStandaloneNonPositive ==
    /\ last.op = "args"
    /\ \E r \in scorer_nonpositive(last.price_history, last.purchased_price,
                                   last.preference, last.num_bins, last.threshold) :
          last' = [op |-> "reward_func.calculate_reward", raised |-> r.raised,
                   args |-> last, reward |-> r.reward]
    /\ UNCHANGED <<concerts, inflight, engine, results, completed>>

\* ConcertPricing.calculate_reward(concert, purchased_price, num_bins <= 0)
ScoreEngineNonPositive ==
    /\ last.op = "args"
    /\ FloorRespecting(last.price_history)
    /\ \E r \in engine_nonpositive(last.price_history, last.purchased_price,
                                   last.preference, last.num_bins) :
          last' = [op |-> "ConcertPricing.calculate_reward", raised |-> r.raised,
                   args |-> last, reward |-> r.reward]
    /\ UNCHANGED <<concerts, inflight, engine, results, completed>>

NextNonPositive == ScoreStandaloneNonPositive \/ ScoreEngineNonPositive

SpecNonPositive == InitNonPositive /\ [][NextNonPositive]_vars

\* ------------------------------------------------------------------ the price as a function
\* get_price on engines that hold no history yet.  The engine takes
\* datetime.now() as its current date, so the days left until a concert depend
\* on the day it is constructed; sell_ticket and user_preferences are open to
\* the caller, so sales and preferences are drawn as well.
PriceOrder == <<"Coldplay", "Arijit Singh", "Taylor Swift">>
\* construction days that put every concert on both sides of 30 and of 7 days
ConstructionDays == {0, 1, 2, 9, 10, 25, 26, 33, 34}
\* preferences on both sides of 50 and of 70
PricePreferences == {40, 49, 50, 69, 70, 95}
\* traffic on both sides of 30 and of 70
PriceTraffic == {0, 29, 30, 50, 69, 70, 100}

InitPrice ==
    /\ concerts = PriceOrder
    /\ price_history = NewEngine(PriceOrder).price_history
    /\ sold_tickets \in {f \in [Range(PriceOrder) -> 0..SeqMax(<<1, 3, 2>>)] :
                            \A c \in DOMAIN f : f[c] <= total_tickets[c]}
    /\ current_date \in ConstructionDays
    /\ user_preferences \in {[c \in Range(PriceOrder) |-> v] : v \in PricePreferences}
    /\ results = <<>>
    /\ completed = 0
    /\ inflight = <<>>
    /\ last = [op |-> "init", raised |-> FALSE]

\* get_price(concert, web_traffic)
GetPrice ==
    /\ \E c \in Range(concerts), web_traffic \in PriceTraffic :
          last' = [op |-> "get_price", raised |-> FALSE, concert |-> c,
                   web_traffic |-> web_traffic, price |-> get_price(Self, c, web_traffic)]
    /\ UNCHANGED <<concerts, inflight, engine, results, completed>>

NextPrice == GetPrice

SpecPrice == InitPrice /\ [][NextPrice]_vars

\* ------------------------------------------------------------------ the resolver as a function
\* _parse_user_prompt applied to drawn preferences, declaration orders and
\* prompts.  A prompt is given with the set of concerts its text names, stated
\* by hand.
Orders(S) ==
    {f \in [1..Cardinality(S) -> S] : \A i, j \in DOMAIN f : f[i] = f[j] => i = j}
ResolverOrders == Orders(AllConcerts)
PreferenceSeeds == {0, 50, 95}
ResolverPrompts == {
    [text |-> <<"c","h","e","a","p","e","s","t">>, names |-> {}],
    [text |-> <<"C","O","L","D","P","L","A","Y">>, names |-> {"Coldplay"}],
    [text |-> <<"2"," ","f","o","r"," ","a","r","i","j","i","t"," ","S","I","N","G","H">>,
     names |-> {"Arijit Singh"}],
    [text |-> <<"T","a","y","l","o","r"," ","S","w","i","f","t","!">>,
     names |-> {"Taylor Swift"}],
    [text |-> <<"t","a","y","l","o","r"," ","s","w","i","f","t","/","c","o","l","d","p","l","a","y">>,
     names |-> {"Taylor Swift", "Coldplay"}],
    [text |-> <<"t","a","y","l","o","r">>, names |-> {}]
}

InitResolver ==
    /\ concerts \in ResolverOrders
    /\ price_history = NewEngine(concerts).price_history
    /\ sold_tickets = NewEngine(concerts).sold_tickets
    /\ current_date = NewEngine(concerts).current_date
    /\ user_preferences \in [Range(concerts) -> PreferenceSeeds]
    /\ results = <<>>
    /\ completed = 0
    /\ inflight = <<>>
    /\ last = [op |-> "init", raised |-> FALSE]

\* a call of _parse_user_prompt
ParseUserPrompt ==
    /\ \E prompt \in ResolverPrompts :
          /\ Commit(parse_user_prompt(Self, concerts, prompt.text))
          /\ last' = [op |-> "parse_user_prompt", raised |-> FALSE, prompt |-> prompt]
    /\ UNCHANGED <<concerts, inflight, results, completed>>

NextResolver == ParseUserPrompt

SpecResolver == InitResolver /\ [][NextResolver]_vars

\* ------------------------------------------------------------------ the decision resolver
\* llm_client.decide_with_llm and the engine variant's _parse_user_prompt_llm
\* (testy.py), applied to drawn prompts, keys and responses of the external
\* service.
Wait == "Wait"
MaxRuns == 2

\* str.strip: the text without its leading and trailing blanks
Strip(text) ==
    LET keep == {i \in DOMAIN text : text[i] # " "} IN
    IF keep = {} THEN <<>>
    ELSE SubSeq(text, CHOOSE i \in keep : \A j \in keep : i <= j,
                      CHOOSE i \in keep : \A j \in keep : i >= j)

\* GET /state reporting the first price of every history
get_state_first_entry(self, order) ==
    [prices |-> [c \in Range(order) |->
                    IF self.price_history[c] # <<>>
                    THEN self.price_history[c][1]
                    ELSE Half * 100 * base_prices[c]],
     remaining |-> [c \in Range(order) |-> total_tickets[c] - self.sold_tickets[c]],
     preference |-> [c \in Range(order) |-> self.user_preferences[c]],
     date |-> self.current_date]

\* GET /state: the latest price of every concert, or its base price
get_state(self, order) ==
    [prices |-> [c \in Range(order) |->
                    IF self.price_history[c] # <<>>
                    THEN self.price_history[c][Len(self.price_history[c])]
                    ELSE Half * 100 * base_prices[c]],
     remaining |-> [c \in Range(order) |-> total_tickets[c] - self.sold_tickets[c]],
     preference |-> [c \in Range(order) |-> self.user_preferences[c]],
     date |-> self.current_date]

\* the first artist, in list order, whose lowered name the text contains
first_artist_in(text, available_artists) ==
    LET hits == {k \in DOMAIN available_artists :
                    Contains(Lower(Name(available_artists[k])), Lower(text))} IN
    IF hits = {} THEN None
    ELSE available_artists[CHOOSE k \in hits : \A j \in hits : k <= j]

\* min(prices, key=prices.get): the first key, in dict order, of least price
cheapest_artist(state, available_artists) ==
    LET least == {k \in DOMAIN available_artists :
                    \A j \in DOMAIN available_artists :
                        state.prices[available_artists[k]] <= state.prices[available_artists[j]]}
    IN  available_artists[CHOOSE k \in least : \A j \in least : k <= j]

\* decide_with_llm.fallback; pick is the value random.choice returns
fallback(user_prompt, state, available_artists, pick) ==
    IF first_artist_in(user_prompt, available_artists) # None
    THEN first_artist_in(user_prompt, available_artists)
    ELSE IF Contains(<<"c","h","e","a","p","e","s","t">>, Lower(user_prompt))
    THEN cheapest_artist(state, available_artists)
    ELSE pick

\* whether decide_with_llm ends in fallback(): no key, a failed call, or a
\* content that names no artist and is not the word wait
uses_fallback(available_artists, key, response) ==
    \/ ~key
    \/ response.kind # "content"
    \/ /\ first_artist_in(Strip(response.content), available_artists) = None
       /\ Lower(Strip(Strip(response.content))) # <<"w","a","i","t">>

\* llm_client.decide_with_llm
decide_with_llm(user_prompt, state, available_artists, key, response, pick) ==
    IF uses_fallback(available_artists, key, response)
    THEN fallback(user_prompt, state, available_artists, pick)
    ELSE IF first_artist_in(Strip(response.content), available_artists) # None
    THEN first_artist_in(Strip(response.content), available_artists)
    ELSE Wait

\* testy.py: the low preference of the variant's parsers
TestyLowPref == 20

\* testy.py ConcertPricing._parse_user_prompt
testy_parse_user_prompt(self, order, prompt) ==
    [self EXCEPT !.user_preferences =
        [c \in Range(order) |->
            IF c = selected_concert(order, prompt) THEN HighPref ELSE TestyLowPref]]

\* testy.py ConcertPricing._parse_user_prompt_llm: requests.post and
\* resp.json() are not guarded, a status other than 200 falls back to the
\* keyword parser, an unrecognised content selects the first concert
testy_parse_user_prompt_llm(self, order, prompt, response) ==
    IF response.kind \in {"transport_error", "unparseable"}
    THEN [self |-> self, raised |-> TRUE]
    ELSE IF response.kind = "error_status"
    THEN [self |-> testy_parse_user_prompt(self, order, prompt), raised |-> FALSE]
    ELSE [self |-> [self EXCEPT !.user_preferences =
                [c \in Range(order) |->
                    IF c = (IF first_artist_in(Strip(response.content), order) # None
                            THEN first_artist_in(Strip(response.content), order)
                            ELSE order[1])
                    THEN HighPref ELSE TestyLowPref]],
          raised |-> FALSE]

\* user prompts of the decision resolver: the engine's and one that names no
\* concert and does not ask for the cheapest
DecidePrompts == Prompts \cup {<<"s","u","r","p","r","i","s","e"," ","m","e">>}

\* what the external service answers: no connection or a timeout, an error
\* status, a body that is not the expected JSON, or a content
LlmResponses ==
    {[kind |-> k, content |-> <<>>] :
        k \in {"transport_error", "error_status", "unparseable"}}
    \cup {[kind |-> "content", content |-> t] : t \in {
            <<"T","A","Y","L","O","R"," ","S","W","I","F","T",".">>,
            <<" ","W","a","i","t"," ">>,
            <<"c","o","s","t","l","i","e","s","t">>}}

InitDecide ==
    /\ concerts \in ResolverOrders
    /\ price_history = NewEngine(concerts).price_history
    /\ sold_tickets = NewEngine(concerts).sold_tickets
    /\ current_date = NewEngine(concerts).current_date
    /\ user_preferences = NewEngine(concerts).user_preferences
    /\ results = <<>>
    /\ completed = 0
    /\ inflight = <<>>
    /\ last \in [op : {"args"}, raised : {FALSE}, user_prompt : DecidePrompts,
                 key : BOOLEAN, response : LlmResponses, decisions : {<<>>}]

\* a run of decide_with_llm on the arguments, the state and the answer drawn
DecideWithLlm ==
    /\ last.op \in {"args", "decide_with_llm"}
    /\ Len(last.decisions) < MaxRuns
    /\ \E pick \in Range(concerts) :
          last' = [last EXCEPT
                     !.op = "decide_with_llm",
                     !.decisions = Append(@, decide_with_llm(last.user_prompt,
                                      get_state(Self, concerts), concerts,
                                      last.key, last.response, pick))]
    /\ UNCHANGED <<concerts, inflight, engine, results, completed>>

\* a run of the variant's _parse_user_prompt_llm; without a key the service
\* answers with an error status, if it is reached at all
ParseUserPromptLlm ==
    /\ last.op = "args"
    /\ last.key \/ last.response.kind \in {"transport_error", "error_status"}
    /\ \E r \in {testy_parse_user_prompt_llm(Self, concerts, last.user_prompt,
                                             last.response)} :
          /\ Commit(r.self)
          /\ last' = [last EXCEPT !.op = "_parse_user_prompt_llm", !.raised = r.raised]
    /\ UNCHANGED <<concerts, inflight, results, completed>>

NextDecide == DecideWithLlm \/ ParseUserPromptLlm

SpecDecide == InitDecide /\ [][NextDecide]_vars

\* ------------------------------------------------------------------ the decision endpoint
\* the value of random.randint(33, 100) offered to llm_buy, for every concert
LlmTrafficValues == {33}
\* the least and the largest value random.randint(0, max(1, traffic // 10))
\* can return, for every concert
LlmSalesDraws(order, web_traffic) ==
    UNION {[Range(order) -> {0, m}] : m \in {Max2(1, t \div 10) : t \in LlmTrafficValues}}

\* the decisions decide_with_llm can return on a prompt and a state: with a
\* key over the answers of the service, without one (no call is made), and
\* over the value of random.choice
Decisions(self, order, user_prompt) ==
    {decide_with_llm(user_prompt, get_state(self, order), order, TRUE, response, pick) :
        response \in LlmResponses, pick \in Range(order)}
    \cup {decide_with_llm(user_prompt, get_state(self, order), order, FALSE,
                          [kind |-> "transport_error", content |-> <<>>], pick) :
            pick \in Range(order)}

\* the entry llm_buy appends to the results log
llm_entry(self, user_prompt, decision, day_state, web_traffic) ==
    LET scored == reward_func_calculate_reward(self.price_history[decision],
                      day_state[decision].Price, 50, 5, 200)
    IN  [date |-> self.current_date,
         user_prompt |-> user_prompt,
         decision |-> decision,
         price |-> day_state[decision].Price,
         reward |-> scored.reward,
         bins |-> scored.bins,
         bin_index |-> scored.bin_index,
         web_traffic |-> web_traffic]

\* llm_buy with the day simulated before the decision is looked at
llm_buy_simulates_first(self, order, user_prompt, decision, web_traffic, sales) ==
    LET r == simulate_purchase(self, order, user_prompt, web_traffic, sales) IN
    [self |-> r.self, day_state |-> r.day_state, waited |-> decision = Wait,
     raised |-> decision # Wait /\ decision \notin DOMAIN r.day_state]

\* llm_buy after the decision: Wait returns at once, anything else simulates
\* the day and reads day_state[decision], a KeyError if it is not there
llm_buy(self, order, user_prompt, decision, web_traffic, sales) ==
    IF decision = Wait
    THEN [self |-> self, day_state |-> <<>>, waited |-> TRUE, raised |-> FALSE]
    ELSE LET r == simulate_purchase(self, order, user_prompt, web_traffic, sales) IN
         [self |-> r.self, day_state |-> r.day_state, waited |-> FALSE,
          raised |-> decision \notin DOMAIN r.day_state]

\* POST /llm_buy
LlmBuy ==
    /\ \A c \in Range(concerts) : Len(price_history[c]) < MaxDays
    /\ \E user_prompt \in DecidePrompts :
       \E decision \in Decisions(Self, concerts, user_prompt) :
       \E web_traffic \in [Range(concerts) -> LlmTrafficValues] :
       \E sales \in LlmSalesDraws(concerts, web_traffic) :
       \E r \in {llm_buy(Self, concerts, user_prompt, decision, web_traffic, sales)} :
          /\ Commit(r.self)
          /\ completed' = IF r.waited THEN completed ELSE completed + 1
          /\ results' = IF r.waited \/ r.raised THEN results
                        ELSE Append(results, llm_entry(r.self, user_prompt, decision,
                                                       r.day_state, web_traffic))
          /\ last' = [op |-> "llm_buy", raised |-> r.raised, decision |-> decision,
                      user_prompt |-> user_prompt]
    /\ UNCHANGED <<concerts, inflight>>

NextLlm == LlmBuy

SpecLlm == Init /\ [][NextLlm]_vars

\* ------------------------------------------------------------------ concurrent requests
\* app.py declares buy and llm_buy with def, so the server runs each request
\* in a worker thread, and nothing in app.py or pricing.py takes a lock: two
\* simulate_purchase calls on the one engine run as two threads whose steps
\* interleave.  A step is a stretch of the call between two accesses to the
\* engine's attributes.
Threads == 1..2

\* the thread's call has not started
Idle == [pc |-> "parse", k |-> 0, price |-> 0, date |-> 0]

InitConcurrent ==
    /\ concerts = EngineOrder
    /\ price_history = NewEngine(EngineOrder).price_history
    /\ sold_tickets = NewEngine(EngineOrder).sold_tickets
    /\ current_date = NewEngine(EngineOrder).current_date
    /\ user_preferences = NewEngine(EngineOrder).user_preferences
    /\ results = <<>>
    /\ completed = 0
    /\ inflight = [t \in Threads |-> Idle]
    /\ last = [op |-> "init", raised |-> FALSE]

\* self._parse_user_prompt(user_prompt)
ThreadParse(t) ==
    /\ inflight[t].pc = "parse"
    /\ \E user_prompt \in Prompts :
          Commit(parse_user_prompt(Self, concerts, user_prompt))
    /\ inflight' = [inflight EXCEPT ![t] = [@ EXCEPT !.pc = "get_price", !.k = 1]]
    /\ UNCHANGED <<concerts, results, completed, last>>

\* price = self.get_price(concert, traffic): reads the history, the sales,
\* the date and the preference, writes nothing
ThreadGetPrice(t) ==
    /\ inflight[t].pc = "get_price"
    /\ \E traffic \in BuyTrafficValues :
          inflight' = [inflight EXCEPT ![t] =
                          [@ EXCEPT !.pc = "append",
                                    !.price = get_price(Self, concerts[inflight[t].k], traffic)]]
    /\ UNCHANGED <<concerts, engine, results, completed, last>>

\* self.price_history[concert].append(price) and self.sell_ticket(...), then
\* the next concert or the end of the loop
ThreadAppendSell(t) ==
    /\ inflight[t].pc = "append"
    /\ \E tickets_sold_today \in 0..MaxDraw :
          Commit(append_and_sell(Self, concerts[inflight[t].k], inflight[t].price,
                                 tickets_sold_today))
    /\ inflight' = [inflight EXCEPT ![t] =
                       IF inflight[t].k < Len(concerts)
                       THEN [@ EXCEPT !.pc = "get_price", !.k = @ + 1]
                       ELSE [@ EXCEPT !.pc = "read_date"]]
    /\ UNCHANGED <<concerts, results, completed, last>>

\* self.current_date += timedelta(days=1), the read and the addition
ThreadReadDate(t) ==
    /\ inflight[t].pc = "read_date"
    /\ inflight' = [inflight EXCEPT ![t] =
                       [@ EXCEPT !.pc = "write_date", !.date = current_date + 1]]
    /\ UNCHANGED <<concerts, engine, results, completed, last>>

\* self.current_date += timedelta(days=1), the store; the call returns
ThreadWriteDate(t) ==
    /\ inflight[t].pc = "write_date"
    /\ current_date' = inflight[t].date
    /\ completed' = completed + 1
    /\ inflight' = [inflight EXCEPT ![t] = [@ EXCEPT !.pc = "done"]]
    /\ UNCHANGED <<concerts, price_history, sold_tickets, user_preferences, results, last>>

NextConcurrent ==
    \E t \in Threads :
        \/ ThreadParse(t)
        \/ ThreadGetPrice(t)
        \/ ThreadAppendSell(t)
        \/ ThreadReadDate(t)
        \/ ThreadWriteDate(t)

SpecConcurrent == InitConcurrent /\ [][NextConcurrent]_vars

\* ------------------------------------------------------------------ a simulated day, observed
\* a call of simulate_purchase with traffic for every tracked concert; the
\* engine as the call found it, the arguments and the returned day_state are
\* kept for inspection
SimulateDay ==
    /\ \A c \in Range(concerts) : Len(price_history[c]) < MaxDays
    /\ \E user_prompt \in Prompts :
       \E web_traffic_dict \in [Range(concerts) -> BuyTrafficValues] :
       \E sales \in SalesDraws(concerts, web_traffic_dict) :
       \E r \in {simulate_purchase(Self, concerts, user_prompt, web_traffic_dict, sales)} :
          /\ Commit(r.self)
          /\ completed' = completed + 1
          /\ last' = [op |-> "simulate_purchase", raised |-> r.raised,
                      before |-> Self,
                      user_prompt |-> user_prompt,
                      web_traffic_dict |-> web_traffic_dict,
                      day_state |-> r.day_state]
    /\ UNCHANGED <<concerts, inflight, results>>

NextDay == SimulateDay

SpecDay == Init /\ [][NextDay]_vars

\* ------------------------------------------------------------------ the read-only operations
\* the operations that only read the engine, called between simulated days;
\* none of them assigns to a field of the engine
ReadOnlyOps == {"_time_multiplier", "_inventory_multiplier", "_traffic_multiplier",
                "_preference_multiplier", "get_price", "calculate_reward", "get_state"}

Returned(op, args, result) ==
    /\ last' = [op |-> op, raised |-> FALSE, args |-> args, result |-> result]
    /\ UNCHANGED <<concerts, inflight, engine, results, completed>>

TimeMultiplier ==
    \E c \in Range(concerts) : Returned("_time_multiplier", <<c>>, time_multiplier(Self, c))

InventoryMultiplier ==
    \E c \in Range(concerts) :
       Returned("_inventory_multiplier", <<c>>, inventory_multiplier(Self, c))

TrafficMultiplier ==
    \E web_traffic \in BuyTrafficValues :
       Returned("_traffic_multiplier", <<web_traffic>>, traffic_multiplier(web_traffic))

PreferenceMultiplier ==
    \E c \in Range(concerts) :
       Returned("_preference_multiplier", <<c>>, preference_multiplier(Self, c))

ReadPrice ==
    \E c \in Range(concerts), web_traffic \in BuyTrafficValues :
       Returned("get_price", <<c, web_traffic>>, get_price(Self, c, web_traffic))

\* calculate_reward on the price GET /state reports for the concert
ReadReward ==
    \E c \in Range(concerts) :
    \E purchased_price \in {get_state(Self, concerts).prices[c]} :
       Returned("calculate_reward", <<c, purchased_price, 5>>,
                calculate_reward(Self, c, purchased_price, 5))

GetState == Returned("get_state", <<>>, get_state(Self, concerts))

NextQuery ==
    \/ SimulateDay
    \/ TimeMultiplier
    \/ InventoryMultiplier
    \/ TrafficMultiplier
    \/ PreferenceMultiplier
    \/ ReadPrice
    \/ ReadReward
    \/ GetState

SpecQuery == Init /\ [][NextQuery]_vars

\* ------------------------------------------------------------------ claims on the engine
\* traffic values on both sides of every band of the traffic multiplier
ProbeTraffic == {0, 29, 30, 69, 70, 100}

\* C1: in every reachable state 0 <= sold_tickets[c] <= total_tickets[c] for
\* every tracked concert, and a direct sell_ticket call that asked for more
\* tickets than remained raised nothing and left sold_tickets[c] equal to
\* total_tickets[c].
C1_TicketConservation ==
    /\ \A c \in Range(concerts) :
          0 <= sold_tickets[c] /\ sold_tickets[c] <= total_tickets[c]
    /\ (last.op = "sell_ticket" /\ last.oversell) =>
          /\ ~last.raised
          /\ sold_tickets[last.concert] = total_tickets[last.concert]

\* a sell_ticket call asked for more than remained, after a simulated day
C1_Witness ==
    /\ last.op = "sell_ticket" /\ last.oversell
    /\ completed >= 1
    /\ sold_tickets[last.concert] = total_tickets[last.concert]

\* C2: in every reachable state, for every tracked concert with a non-empty
\* history and every probed traffic value, get_price is at least the median of
\* the history; and every price of a history from the second on is at least
\* the median of the prices before it.
C2_MedianFloor ==
    \A c \in Range(concerts) :
        price_history[c] # <<>> =>
            /\ \A t \in ProbeTraffic :
                  get_price(Self, c, t) >= Median(price_history[c])
            /\ \A k \in 2..Len(price_history[c]) :
                  price_history[c][k] >= Median(SubSeq(price_history[c], 1, k - 1))

\* two days are priced and the raw price of the next day is below the median:
\* the floor decides the price
C2_Witness ==
    \E c \in Range(concerts) :
        /\ Len(price_history[c]) = 2
        /\ \E t \in ProbeTraffic : raw_price(Self, c, t) < Median(price_history[c])

\* C3 as claimed: a simulate_purchase call that raises leaves price_history,
\* sold_tickets, current_date and user_preferences as they were before the call.
C3_AbortChangesNothing ==
    [][(last'.op = "simulate_purchase" /\ last'.raised) => UNCHANGED engine]_vars

\* C6 as claimed: every tracked concert's price_history has as many entries as
\* simulate_purchase calls have completed.
C6_HistoryLengthIsCompletedDays ==
    \A c \in Range(concerts) : Len(price_history[c]) = completed

\* C7: current_date is the start date plus the number of completed
\* simulate_purchase calls; a step changes current_date only by a completed
\* simulate_purchase call, which adds exactly one day and prices every tracked
\* concert once; and every completed call does so.
C7_DateAdvancesPerCompletedDay ==
    /\ [](current_date = completed)
    /\ [][/\ current_date' >= current_date
          /\ (current_date' # current_date \/ completed' # completed) =>
                /\ last'.op = "simulate_purchase" /\ ~last'.raised
                /\ current_date' = current_date + 1
                /\ completed' = completed + 1
                /\ \A c \in Range(concerts) :
                      Len(price_history'[c]) = Len(price_history[c]) + 1
          /\ (last'.op = "simulate_purchase" /\ ~last'.raised /\ last' # last) =>
                current_date' = current_date + 1]_vars

\* two calls completed, and a call raised in between or after
C7_Witness ==
    /\ completed = 2
    /\ current_date = 2
    /\ last.op = "simulate_purchase"

\* ------------------------------------------------------------------ claims on the web application
\* C4 as claimed: a buy request whose concert is not tracked is answered with
\* the error and changes neither the engine's state nor the results log.
C4_UnknownConcertChangesNothing ==
    [][(last'.op = "buy" /\ last'.status = 400) => UNCHANGED <<engine, results>>]_vars

\* C5 as claimed: no reward is negative, neither the reward of a day's
\* snapshot nor the reward of a decision record written with the default
\* preference 50 and threshold 2.0.
C5_RewardsNeverNegative ==
    /\ \A i \in DOMAIN results : results[i].reward >= 0
    /\ last.op = "buy" => \A c \in DOMAIN last.reward : last.reward[c] >= 0

\* ------------------------------------------------------------------ claims on the scorers
AllEqual(h) == \A i, j \in DOMAIN h : h[i] = h[j]

\* C8 as claimed: for a history with min != max, a purchased price equal to
\* the minimum is in bin 1 with base reward num_bins - 1, one equal to the
\* maximum is in bin num_bins with base reward 0, and the base reward is
\* always within [0, num_bins - 1]; for the standalone scorer on every
\* purchased price, and for the engine's calculate_reward on the price
\* simulate_purchase passes to it, the one it has just appended to the history.
C8_BaseRewardRange ==
    LET h == last.args.price_history
        p == last.args.purchased_price
        n == last.args.num_bins
        holds(bin, base) ==
            /\ p = SeqMin(h) => bin = 1 /\ base = n - 1
            /\ p = SeqMax(h) => bin = n /\ base = 0
            /\ 0 <= base /\ base <= n - 1
    IN  /\ (last.op = "reward_func.calculate_reward" /\ ~AllEqual(h)) =>
               holds(scorer_bin_index(h, p, n),
                     scorer_base_reward(scorer_bin_index(h, p, n), n))
        /\ (last.op = "ConcertPricing.calculate_reward" /\ ~AllEqual(h)
               /\ p = h[Len(h)]) =>
               holds(engine_bin_index(h, p, n), engine_base_reward(h, p, n))

\* C9: on a non-empty history whose prices are all equal both functions return
\* the reward num_bins - 1 whatever the purchased price and the preference, and
\* the scorer returns bin 1 and num_bins + 1 edges equal to that price; on an
\* empty history both return the reward 0, the scorer with no bin and no edges.
C9_DegenerateHistory ==
    (last.op \in {"reward_func.calculate_reward", "ConcertPricing.calculate_reward"}
        /\ AllEqual(last.args.price_history)) =>
    LET h == last.args.price_history
        n == last.args.num_bins
    IN  IF last.op = "ConcertPricing.calculate_reward"
        THEN last.result = IF h = <<>> THEN 0 ELSE 100 * (n - 1)
        ELSE IF h = <<>>
        THEN last.result.reward = 0 /\ last.result.bin_index = NoBin
             /\ last.result.bins = <<>>
        ELSE /\ last.result.reward = 100 * (n - 1)
             /\ last.result.bin_index = 1
             /\ Len(last.result.bins) = n + 1
             /\ \A j \in DOMAIN last.result.bins : last.result.bins[j] = <<h[1], 1>>

\* the scorer ran on a history of equal prices with another purchased price
\* and a preference that is penalised on other histories
C9_Witness ==
    /\ last.op = "reward_func.calculate_reward"
    /\ Len(last.args.price_history) >= 2
    /\ AllEqual(last.args.price_history)
    /\ last.args.purchased_price > last.args.price_history[1]
    /\ last.args.preference < 30
    /\ last.result.reward = 100 * (last.args.num_bins - 1)

\* C17: on a history with min != max, for the purchased price p scored and
\* every other price q, if p lies below q after both are clipped into
\* [min, max] then the base reward of p is at least that of q, and if above
\* then at most; for the scorer and for the engine's calculate_reward.
C17_RewardMonotone ==
    (last.op \in {"reward_func.calculate_reward", "ConcertPricing.calculate_reward"}
        /\ ~AllEqual(last.args.price_history)) =>
    LET h == last.args.price_history
        n == last.args.num_bins
        p == last.args.purchased_price
        clipped(x) == IF x < SeqMin(h) THEN SeqMin(h)
                      ELSE IF x > SeqMax(h) THEN SeqMax(h) ELSE x
        base(x) == IF last.op = "reward_func.calculate_reward"
                   THEN scorer_base_reward(scorer_bin_index(h, x, n), n)
                   ELSE engine_base_reward(h, x, n)
    IN  \A q \in PurchasePrices :
            /\ clipped(p) < clipped(q) => base(p) >= base(q)
            /\ clipped(q) < clipped(p) => base(q) >= base(p)

\* the scorer ran on a price inside the range whose base reward lies strictly
\* between those of a dearer and of a cheaper price
C17_Witness ==
    /\ last.op = "reward_func.calculate_reward"
    /\ last.args.price_history = <<100, 500>>
    /\ last.args.num_bins = 5
    /\ last.args.purchased_price = 250
    /\ scorer_base_reward(last.result.bin_index, 5) = 3
    /\ scorer_base_reward(scorer_bin_index(<<100, 500>>, 180, 5), 5) = 4
    /\ scorer_base_reward(scorer_bin_index(<<100, 500>>, 500, 5), 5) = 0

\* C18: on a history with min != max, a purchased price below min gets the
\* reward and the bin of a purchased price equal to min, and one above max
\* those of a price equal to max, the other arguments being the same.
C18_ClippedLikeTheBounds ==
    (last.op \in {"reward_func.calculate_reward", "ConcertPricing.calculate_reward"}
        /\ ~AllEqual(last.args.price_history)) =>
    LET a == last.args
        h == last.args.price_history
        same(bound) ==
            IF last.op = "reward_func.calculate_reward"
            THEN LET r == reward_func_calculate_reward(h, bound, a.preference,
                                                       a.num_bins, a.threshold)
                 IN  last.result.reward = r.reward /\ last.result.bin_index = r.bin_index
            ELSE last.result = calculate_reward(EngineWith(h, a.preference),
                                                EngineOrder[1], bound, a.num_bins)
    IN  /\ a.purchased_price < SeqMin(h) => same(SeqMin(h))
        /\ a.purchased_price > SeqMax(h) => same(SeqMax(h))

\* the scorer ran on a price below the range and answered with the first bin
C18_Witness ==
    /\ last.op = "reward_func.calculate_reward"
    /\ last.args.price_history = <<180, 500, 180>>
    /\ last.args.purchased_price = 50
    /\ last.args.num_bins = 5
    /\ last.result.bin_index = 1

\* C19: on a history with min != max the scorer returns num_bins + 1 edges,
\* edge j being min + (j - 1)(max - min) / num_bins; the bin is within
\* [1, num_bins]; a clipped price above edge j and at or below edge j + 1 is in
\* bin j, so a price on an interior edge is in the lower bin; on the history
\* [100, 200, 300, 400, 500] with 5 bins the edges are 100, 180, 260, 340, 420,
\* 500, the price 250 is in bin 2 with base reward 3 and the price 260 is in
\* bin 2 as well.
C19_BinningRule ==
    (last.op = "reward_func.calculate_reward" /\ ~AllEqual(last.args.price_history)) =>
    LET h == last.args.price_history
        n == last.args.num_bins
        p == last.args.purchased_price
        x == IF p < SeqMin(h) THEN SeqMin(h) ELSE IF p > SeqMax(h) THEN SeqMax(h) ELSE p
        bins == last.result.bins
        bin == last.result.bin_index
    IN  /\ Len(bins) = n + 1
        /\ \A j \in 1..(n + 1) :
              bins[j][1] * n = bins[j][2] * (n * SeqMin(h) + (j - 1) * (SeqMax(h) - SeqMin(h)))
        /\ 1 <= bin /\ bin <= n
        /\ \A j \in 1..n :
              (bins[j][1] < x * bins[j][2] /\ x * bins[j + 1][2] <= bins[j + 1][1]) => bin = j
        /\ (h = ExampleHistory /\ n = 5) =>
              /\ \A j \in 1..6 :
                    bins[j][1] = bins[j][2] * <<100, 180, 260, 340, 420, 500>>[j]
              /\ p = 250 => bin = 2 /\ n - bin = 3
              /\ (p = 250 /\ last.args.preference = 50 /\ last.args.threshold = 200) =>
                    last.result.reward = 300
              /\ p = 260 => bin = 2

\* the scorer ran on the scenario's history with a price on the interior
\* edge 260
C19_Witness ==
    /\ last.op = "reward_func.calculate_reward"
    /\ last.args.price_history = ExampleHistory
    /\ last.args.num_bins = 5
    /\ last.args.purchased_price = 260
    /\ last.result.bin_index = 2

\* ------------------------------------------------------------------ claims on the resolver
\* C10: after _parse_user_prompt ran on a text that names exactly one tracked
\* concert, in whatever case, that concert has the high preference and every
\* other tracked concert the low one, for every declaration order and whatever
\* the preferences were before.
C10_PreferenceResolution ==
    (last.op = "parse_user_prompt" /\ Cardinality(last.prompt.names) = 1) =>
        \A c \in Range(concerts) :
            user_preferences[c] = IF c \in last.prompt.names THEN HighPref ELSE LowPref

\* the resolver ran on an upper-case text naming the concert declared last,
\* which had a low preference before or not
C10_Witness ==
    /\ last.op = "parse_user_prompt"
    /\ last.prompt.names = {"Coldplay"}
    /\ concerts[3] = "Coldplay"
    /\ user_preferences["Coldplay"] = HighPref
    /\ user_preferences[concerts[1]] = LowPref

\* C11 as claimed: every preference is within [0, 100]; after the resolver
\* ran at most one concert holds the high value; and when the text names no
\* tracked concert, or more than one, every concert holds the low value.
C11_PreferenceInvariant ==
    /\ \A c \in Range(concerts) : 0 <= user_preferences[c] /\ user_preferences[c] <= 100
    /\ last.op = "parse_user_prompt" =>
          /\ Cardinality({c \in Range(concerts) : user_preferences[c] = HighPref}) <= 1
          /\ Cardinality(last.prompt.names) # 1 =>
                \A c \in Range(concerts) : user_preferences[c] = LowPref

\* ------------------------------------------------------------------ claims on the decision resolver
\* C12 as claimed: whatever the external call does (no key, no connection or
\* a timeout, an error status, an unparseable or unrecognised answer), the
\* resolver raises nothing and decides for a tracked concert or for Wait.
C12_DecisionAlwaysRecovered ==
    /\ last.op = "decide_with_llm" =>
          /\ ~last.raised
          /\ \A i \in DOMAIN last.decisions :
                last.decisions[i] \in Range(concerts) \cup {Wait}
    /\ last.op = "_parse_user_prompt_llm" => ~last.raised

\* C13 as claimed: when decide_with_llm ends in its fallback, two runs on the
\* same text, state and concert list return the same decision, and a text that
\* names tracked concerts is decided for one of them.
C13_FallbackDeterministic ==
    (last.op = "decide_with_llm" /\ uses_fallback(concerts, last.key, last.response)) =>
        /\ \A i, j \in DOMAIN last.decisions : last.decisions[i] = last.decisions[j]
        /\ (\E d \in Range(concerts) : Mentions(last.user_prompt, d)) =>
              \A i \in DOMAIN last.decisions : Mentions(last.user_prompt, last.decisions[i])

\* ------------------------------------------------------------------ claims on the decision endpoint
\* C14: an llm_buy request whose decision is Wait leaves price_history,
\* sold_tickets, current_date and the preferences as they were and appends
\* nothing to the results log.
C14_WaitChangesNothing ==
    [][(last'.op = "llm_buy" /\ last'.decision = Wait) => UNCHANGED <<engine, results>>]_vars

\* a request was answered with Wait after an earlier request had simulated a
\* day and written its record
C14_Witness ==
    /\ last.op = "llm_buy"
    /\ last.decision = Wait
    /\ completed = 1
    /\ Len(results) = 1
    /\ current_date = 1

\* ------------------------------------------------------------------ claims on concurrent requests
\* C15 as claimed: two requests handled concurrently end as if their
\* simulate_purchase calls had run one after the other: once both have
\* returned every history has grown by two entries, the date has advanced by
\* two days and every price is at least the median of all the prices before it.
C15_ConcurrentDaysSerialized ==
    (inflight # <<>> /\ \A t \in Threads : inflight[t].pc = "done") =>
        /\ \A c \in Range(concerts) : Len(price_history[c]) = Cardinality(Threads)
        /\ current_date = Cardinality(Threads)
        /\ \A c \in Range(concerts) : FloorRespecting(price_history[c])

\* ------------------------------------------------------------------ claims on a non-positive num_bins
\* C16 as claimed: a call of either reward function with num_bins <= 0 ends
\* in an error, on an empty, a degenerate and any other history, and never
\* returns a reward.
C16_NonPositiveBinsRejected ==
    last.op \in {"reward_func.calculate_reward", "ConcertPricing.calculate_reward"} =>
        last.raised

\* ------------------------------------------------------------------ claims on the price
\* C20: with an empty history get_price is the base price times the four
\* multipliers, rounded to whole cents (at most half a cent away from the
\* product), the multipliers being, in twentieths: time 17 / 20 / 25 for more
\* than 30 / 7 to 30 / fewer than 7 days left; inventory 20 / 23 / 27 for a
\* remaining ratio above 1/2 / above 1/5 / at most 1/5; traffic 19 / 20 / 24
\* for a traffic below 30 / 30 to 69 / at least 70; preference 18 / 20 / 23 for
\* a preference below 50 / 50 to 69 / at least 70.  With all four at 1.0 the
\* price is the base price, and 7000 rounds to 7000.00.
C20_RawPriceFormula ==
    (last.op = "get_price" /\ price_history[last.concert] = <<>>) =>
    LET c == last.concert
        days == concert_dates[c] - current_date
        left == total_tickets[c] - sold_tickets[c]
        t == IF days > 30 THEN 17 ELSE IF days >= 7 THEN 20 ELSE 25
        i == IF 2 * left > total_tickets[c] THEN 20
             ELSE IF 5 * left > total_tickets[c] THEN 23 ELSE 27
        w == IF last.web_traffic < 30 THEN 19
             ELSE IF last.web_traffic <= 69 THEN 20 ELSE 24
        p == IF user_preferences[c] < 50 THEN 18
             ELSE IF user_preferences[c] <= 69 THEN 20 ELSE 23
        cents == last.price \div Half
        \* base t i w p / 1600 cents, as (1600 a + b) m / 1600
        a == (base_prices[c] * t * i) \div 1600
        b == (base_prices[c] * t * i) % 1600
        m == w * p
        off == b * m - 1600 * (cents - a * m)
    IN  /\ last.price = Half * cents
        /\ -1600 <= 2 * off /\ 2 * off <= 1600
        /\ (t = 20 /\ i = 20 /\ w = 20 /\ p = 20) =>
              /\ cents = 100 * base_prices[c]
              /\ RoundToCents(7000, 100, 100, 100, 100) = 700000

\* get_price ran with all four multipliers at 1.0: 8 days left, nothing sold,
\* traffic 50, preference 50
C20_Witness ==
    /\ last.op = "get_price"
    /\ last.concert = "Coldplay"
    /\ current_date = 0
    /\ sold_tickets["Coldplay"] = 0
    /\ last.web_traffic = 50
    /\ user_preferences["Coldplay"] = 50
    /\ last.price = Half * 100 * base_prices["Coldplay"]

\* ------------------------------------------------------------------ claims on a simulated day
\* C22: within one simulated day every concert's price is the one get_price
\* gives on the engine as the call found it, with only the preferences of the
\* prompt applied (its history before the append, its sold count before the
\* sale); the reward is computed after the append, on a non-empty history whose
\* last entry is that price, so min(history) <= price <= max(history), and it
\* is the reward of the engine's scorer on that history.
C22_DayOrder ==
    last.op = "simulate_purchase" =>
        LET resolved == parse_user_prompt(last.before, concerts, last.user_prompt)
        IN  \A c \in DOMAIN last.day_state :
               LET e == last.day_state[c]
                   h == price_history[c]
               IN  /\ e.Price = get_price(resolved, c, last.web_traffic_dict[c])
                   /\ e.Preference = resolved.user_preferences[c]
                   /\ h = Append(last.before.price_history[c], e.Price)
                   /\ SeqMin(h) <= e.Price /\ e.Price <= SeqMax(h)
                   /\ e.Reward = calculate_reward(Self, c, e.Price, 5)

\* a day on which a concert sold its last ticket after an earlier day: the
\* sale changes the inventory multiplier, the append changes the floor
C22_Witness ==
    /\ last.op = "simulate_purchase"
    /\ \E c \in DOMAIN last.day_state :
          /\ last.before.price_history[c] # <<>>
          /\ last.before.sold_tickets[c] < total_tickets[c]
          /\ sold_tickets[c] = total_tickets[c]

\* C24 as claimed: a returned day_state has one entry for every tracked
\* concert, and in each entry Total Sold + Remaining = total_tickets, Total
\* Sold is the total sold before the day plus Sold Today, and Sold Today is an
\* integer in [0, max(1, traffic // 10)], also when the sale was clamped to the
\* remaining capacity.
C24_SnapshotConsistent ==
    (last.op = "simulate_purchase" /\ ~last.raised) =>
        /\ DOMAIN last.day_state = Range(concerts)
        /\ \A c \in DOMAIN last.day_state :
              LET e == last.day_state[c]
              IN  /\ e.TotalSold + e.Remaining = total_tickets[c]
                  /\ e.TotalSold = last.before.sold_tickets[c] + e.SoldToday
                  /\ e.SoldToday \in 0..Max2(1, e.Traffic \div 10)

\* C23: the median floor is a ratchet: over a simulated day the median of a
\* concert's price history, the floor of its next price, does not decrease
\* once the history has an entry.
C23_MedianRatchet ==
    [][\A c \in Range(concerts) :
          price_history[c] # <<>> =>
              Median(price_history'[c]) >= Median(price_history[c])]_vars

\* a concert's second day was priced by the floor: the raw price was below the
\* median of its history, and the history has grown by the floored price
C23_Witness ==
    /\ last.op = "simulate_purchase"
    /\ \E c \in DOMAIN last.day_state :
          LET resolved == parse_user_prompt(last.before, concerts, last.user_prompt)
          IN  /\ last.before.price_history[c] # <<>>
              /\ raw_price(resolved, c, last.web_traffic_dict[c])
                     < Median(last.before.price_history[c])
              /\ Len(price_history[c]) = Len(last.before.price_history[c]) + 1

\* ------------------------------------------------------------------ claims on the read-only operations
\* C21: a call of one of the four multiplier functions, of get_price, of
\* calculate_reward or of the state query leaves price_history, sold_tickets,
\* current_date and the preferences as they were; and the state query reports
\* for every concert the last entry of its price history, or the base price
\* when the history is empty, and remaining = total_tickets - sold_tickets.
C21_ReadOnlyOperations ==
    /\ [][last'.op \in ReadOnlyOps =>
             /\ price_history' = price_history
             /\ sold_tickets' = sold_tickets
             /\ current_date' = current_date
             /\ user_preferences' = user_preferences]_vars
    /\ [](last.op = "get_state" =>
             \A c \in Range(concerts) :
                /\ c \in DOMAIN last.result.prices
                /\ last.result.prices[c] =
                      IF Len(price_history[c]) = 0
                      THEN Half * 100 * base_prices[c]
                      ELSE price_history[c][Len(price_history[c])]
                /\ last.result.remaining[c] = total_tickets[c] - sold_tickets[c])

\* the state query after two days on which a concert's price rose and tickets
\* were sold: the reported price is the second day's, not the first's
C21_Witness ==
    /\ last.op = "get_state"
    /\ \E c \in Range(concerts) :
          /\ Len(price_history[c]) = 2
          /\ price_history[c][2] > price_history[c][1]
          /\ sold_tickets[c] > 0

====
